---- MODULE Spec2Model ----
(***************************************************************************)
(* ElectrodeArray and ElectrodeGrid of pulse2percept/implants/             *)
(* electrode_arrays.py as a state machine.                                 *)
(*                                                                         *)
(* The OrderedDict `_electrodes` is a sequence of entries [key, obj] in    *)
(* insertion order.  An Electrode object is its identity (a positive       *)
(* number); 0 stands for a value that is not an Electrode / for None.      *)
(* A Python string is the sequence of its characters, so that '-' in s,    *)
(* s.replace, s.isalpha, s.isdigit, str(i) and + on strings are computed.  *)
(***************************************************************************)
EXTENDS Integers, Sequences, FiniteSets, TLC

\* ------------------------------------------------------------- bounds
MaxInit == 2      \* longest list / dict handed to ElectrodeArray(...)
MaxRows == 2      \* largest number of rows of a constructed grid
MaxCols == 2      \* largest number of columns of a constructed grid
MaxOps  == 2      \* calls on the object after its construction
GeomRows == 4     \* largest number of rows of a grid whose lattice is examined
GeomCols == 4     \* largest number of columns of such a grid
MaxSpacing == 2   \* largest spacing, in units of length

\* ------------------------------------------------------------- values
\* A key or a lookup item: a str, an int or a 2-tuple of ints.
StrItem(s)    == [t |-> "str",   s |-> s,    i |-> 0, j |-> 0]
IntItem(i)    == [t |-> "int",   s |-> <<>>, i |-> i, j |-> 0]
TupItem(i, j) == [t |-> "tuple", s |-> <<>>, i |-> i, j |-> j]

NotElectrode == 0
NoneValue    == 0
IsElectrode(e) == e > 0

Result(exc, why, es) == [exc |-> exc, why |-> why, electrodes |-> es]
Ok(es) == Result("none", "", es)

\* --------------------------------------------------- OrderedDict views
electrode_names(es)   == [k \in 1..Len(es) |-> es[k].key]
electrode_objects(es) == [k \in 1..Len(es) |-> es[k].obj]
n_electrodes(es)      == Len(es)
Iter(es)              == electrode_names(es)

InList(x, l) == \E k \in 1..Len(l) : l[k] = x
HasKey(es, name) == \E k \in 1..Len(es) : es[k].key = name
PosOf(es, name)  == CHOOSE k \in 1..Len(es) : es[k].key = name
DictGet(es, name) == es[PosOf(es, name)].obj

\* OrderedDict.update({name: electrode}): an existing key keeps its place
\* and gets the new value, a new key goes to the end.
DictUpdate(es, name, electrode) ==
    IF HasKey(es, name)
    THEN [es EXCEPT ![PosOf(es, name)].obj = electrode]
    ELSE Append(es, [key |-> name, obj |-> electrode])

\* Mutant of DictDel: the last entry is moved into the freed place.
DictDel_swap(es, name) ==
    LET p == PosOf(es, name)
    IN  [k \in 1..(Len(es) - 1) |-> IF k = p THEN es[Len(es)] ELSE es[k]]

\* del d[name], name present.
DictDel(es, name) ==
    LET p == PosOf(es, name)
    IN  [k \in 1..(Len(es) - 1) |-> IF k < p THEN es[k] ELSE es[k + 1]]

\* ------------------------------------------------------ ElectrodeArray
\* Mutant of add_electrode: an existing key is overwritten, not refused.
add_electrode_overwrite(es, name, electrode) ==
    IF ~IsElectrode(electrode)
    THEN Result("TypeError", "not an Electrode", es)
    ELSE Ok(DictUpdate(es, name, electrode))

add_electrode(es, name, electrode) ==
    IF ~IsElectrode(electrode)
    THEN Result("TypeError", "not an Electrode", es)
    ELSE IF InList(name, electrode_names(es))
    THEN Result("ValueError", "key exists", es)
    ELSE Ok(DictUpdate(es, name, electrode))

\* Mutant of remove_electrode: an absent key is ignored.
remove_electrode_silent(es, name) ==
    IF ~InList(name, electrode_names(es)) THEN Ok(es) ELSE Ok(DictDel(es, name))

remove_electrode(es, name) ==
    IF ~InList(name, electrode_names(es))
    THEN Result("ValueError", "key absent", es)
    ELSE Ok(DictDel(es, name))

\* list(...)[i] for an int i: Python accepts -n..n-1; 0 when out of range.
PyIndex(n, i) == IF 0 <= i /\ i < n THEN i + 1
                 ELSE IF -n <= i /\ i < 0 THEN n + i + 1
                 ELSE 0

Lookup(exc, ret) == [exc |-> exc, ret |-> ret]

\* Mutant of ArrayGetItem: an integer is tried as a position before it is
\* tried as a key.
ArrayGetItem_posfirst(es, item) ==
    IF item.t = "str"
    THEN IF HasKey(es, item) THEN Lookup("none", DictGet(es, item))
                             ELSE Lookup("none", NoneValue)
    ELSE IF item.t = "int" /\ PyIndex(Len(es), item.i) # 0
    THEN Lookup("none", es[PyIndex(Len(es), item.i)].obj)
    ELSE IF HasKey(es, item) THEN Lookup("none", DictGet(es, item))
    ELSE IF item.t # "int" THEN Lookup("TypeError", NoneValue)
    ELSE Lookup("StopIteration", NoneValue)

\* Mutant of ArrayGetItem: an index out of range gives None, as in the grid.
ArrayGetItem_none(es, item) ==
    IF item.t = "str"
    THEN IF HasKey(es, item) THEN Lookup("none", DictGet(es, item))
                             ELSE Lookup("none", NoneValue)
    ELSE IF HasKey(es, item) THEN Lookup("none", DictGet(es, item))
    ELSE IF item.t # "int" THEN Lookup("TypeError", NoneValue)
    ELSE LET p == PyIndex(Len(es), item.i)
         IN  IF p = 0 THEN Lookup("none", NoneValue)
             ELSE Lookup("none", DictGet(es, electrode_names(es)[p]))

ArrayGetItem(es, item) ==
    IF item.t = "str"
    THEN IF HasKey(es, item) THEN Lookup("none", DictGet(es, item))
                             ELSE Lookup("none", NoneValue)
    ELSE IF HasKey(es, item) THEN Lookup("none", DictGet(es, item))
    ELSE IF item.t # "int" THEN Lookup("TypeError", NoneValue)
    ELSE LET p == PyIndex(Len(es), item.i)
         IN  IF p = 0 THEN Lookup("StopIteration", NoneValue)
             ELSE Lookup("none", DictGet(es, electrode_names(es)[p]))

\* ElectrodeArray.__init__: a dict (entries in the order it is iterated),
\* a list, a single Electrode, or anything else.
RECURSIVE InitFromDict(_, _, _)
InitFromDict(es, d, k) ==
    IF k > Len(d) THEN Ok(es)
    ELSE LET r == add_electrode(es, d[k].key, d[k].obj)
         IN  IF r.exc # "none" THEN r ELSE InitFromDict(r.electrodes, d, k + 1)

RECURSIVE InitFromList(_, _, _)
InitFromList(es, l, k) ==
    IF k > Len(l) THEN Ok(es)
    ELSE LET r == add_electrode(es, IntItem(n_electrodes(es)), l[k])
         IN  IF r.exc # "none" THEN r ELSE InitFromList(r.electrodes, l, k + 1)

\* Mutant of ArrayInit: the entries of a dict are taken last first.
ArrayInit_reversed(input) ==
    IF input.form = "dict"
    THEN InitFromDict(<<>>, [k \in 1..Len(input.d) |->
                                input.d[Len(input.d) + 1 - k]], 1)
    ELSE IF input.form = "list" THEN InitFromList(<<>>, input.l, 1)
    ELSE IF input.form = "single"
    THEN add_electrode(<<>>, IntItem(n_electrodes(<<>>)), input.l[1])
    ELSE Result("TypeError", "electrodes", <<>>)

ArrayInit(input) ==
    IF input.form = "dict" THEN InitFromDict(<<>>, input.d, 1)
    ELSE IF input.form = "list" THEN InitFromList(<<>>, input.l, 1)
    ELSE IF input.form = "single"
    THEN add_electrode(<<>>, IntItem(n_electrodes(<<>>)), input.l[1])
    ELSE Result("TypeError", "electrodes", <<>>)

\* ------------------------------------------------------ naming helpers
Letters == <<"A", "B", "C", "D", "E", "F", "G", "H", "I", "J", "K", "L", "M",
             "N", "O", "P", "Q", "R", "S", "T", "U", "V", "W", "X", "Y", "Z">>
Digits  == <<"0", "1", "2", "3", "4", "5", "6", "7", "8", "9">>

Range(s)   == {s[k] : k \in 1..Len(s)}
Reverse(s) == [k \in 1..Len(s) |-> s[Len(s) + 1 - k]]

\* Bijective base 26 of n >= 1: A..Z, AA, AB, ...
RECURSIVE Bij26(_)
Bij26(n) == IF n <= 0 THEN <<>>
            ELSE Bij26((n - 1) \div 26) \o <<Letters[((n - 1) % 26) + 1]>>
bijective26_name(i) == Bij26(i + 1)

\* str(n), n >= 0.
RECURSIVE DecStr(_)
DecStr(n) == IF n < 10 THEN <<Digits[n + 1]>>
             ELSE DecStr(n \div 10) \o <<Digits[(n % 10) + 1]>>

\* range(n) is empty for n <= 0.
_get_alphabetic_names(n) == [k \in 1..n |-> bijective26_name(k - 1)]
_get_numeric_names(n)    == [k \in 1..n |-> DecStr(k)]

isalpha(s) == Len(s) > 0 /\ Range(s) \subseteq Range(Letters)
isdigit(s) == Len(s) > 0 /\ Range(s) \subseteq Range(Digits)
HasDash(s) == "-" \in Range(s)
StripDash(s) == SelectSeq(s, LAMBDA c : c # "-")

\* ------------------------------------------------------- ElectrodeGrid
RECURSIVE Prod(_)
Prod(v) == IF Len(v) = 0 THEN 1 ELSE Head(v) * Prod(Tail(v))

Max0(n) == IF n > 0 THEN n ELSE 0
Min(a, b) == IF a <= b THEN a ELSE b

\* _make_grid, lines 480-492 / 494-505: the names of one axis.
AxisNames(scheme, n) ==
    LET base == StripDash(scheme)
        seq  == IF isalpha(base) THEN _get_alphabetic_names(n)
                ELSE _get_numeric_names(n)
    IN  IF HasDash(scheme) THEN Reverse(seq) ELSE seq

AxisOk(scheme) == isalpha(StripDash(scheme)) \/ isdigit(StripDash(scheme))

\* Mutant of SchemeNames: always row name first.
SchemeNames_rowfirst(name_rows, name_cols, rows, cols) ==
    LET rws  == AxisNames(name_rows, rows)
        clms == AxisNames(name_cols, cols)
    IN  [k \in 1..(Len(rws) * Len(clms)) |->
            LET i == ((k - 1) \div Len(clms)) + 1
                j == ((k - 1) % Len(clms)) + 1
            IN  StrItem(rws[i] \o clms[j])]

\* _make_grid, lines 506-512: row-major composition, letters before digits.
SchemeNames(name_rows, name_cols, rows, cols) ==
    LET rws  == AxisNames(name_rows, rows)
        clms == AxisNames(name_cols, cols)
        colFirst == isalpha(StripDash(name_cols)) /\ ~isalpha(StripDash(name_rows))
    IN  [k \in 1..(Len(rws) * Len(clms)) |->
            LET i == ((k - 1) \div Len(clms)) + 1
                j == ((k - 1) % Len(clms)) + 1
            IN  StrItem(IF colFirst THEN clms[j] \o rws[i] ELSE rws[i] \o clms[j])]

NamesResult(exc, why, names) == [exc |-> exc, why |-> why, names |-> names]

\* Mutant of MakeNames: two names are a scheme whatever the number of cells.
MakeNames_always(shape, names) ==
    IF Len(names) = 2
    THEN IF names[1].t # "str" THEN [exc |-> "TypeError", why |-> "row name", names |-> <<>>]
         ELSE IF names[2].t # "str"
         THEN [exc |-> "TypeError", why |-> "column name", names |-> <<>>]
         ELSE IF ~AxisOk(names[1].s)
         THEN [exc |-> "ValueError", why |-> "row name", names |-> <<>>]
         ELSE IF ~AxisOk(names[2].s)
         THEN [exc |-> "ValueError", why |-> "column name", names |-> <<>>]
         ELSE [exc |-> "none", why |-> "",
               names |-> SchemeNames(names[1].s, names[2].s, shape[1], shape[2])]
    ELSE [exc |-> "none", why |-> "", names |-> names]

\* _make_grid, lines 471-512: the list of names zipped with the positions.
MakeNames(shape, names) ==
    IF Len(names) = 2 /\ Prod(shape) # 2
    THEN IF names[1].t # "str" THEN NamesResult("TypeError", "row name", <<>>)
         ELSE IF names[2].t # "str" THEN NamesResult("TypeError", "column name", <<>>)
         ELSE IF ~AxisOk(names[1].s) THEN NamesResult("ValueError", "row name", <<>>)
         ELSE IF ~AxisOk(names[2].s) THEN NamesResult("ValueError", "column name", <<>>)
         ELSE NamesResult("none", "",
                          SchemeNames(names[1].s, names[2].s, shape[1], shape[2]))
    ELSE NamesResult("none", "", names)

\* The loops of lines 573-578: one fresh electrode per zipped name.
RECURSIVE InsertAll(_, _, _, _)
InsertAll(es, names, k, n) ==
    IF k > n THEN Ok(es)
    ELSE LET r == add_electrode(es, names[k], k)
         IN  IF r.exc # "none" THEN r ELSE InsertAll(r.electrodes, names, k + 1, n)

\* Mutant of _make_grid: both axes of the meshgrid are built from rows.
_make_grid_rows(shape, a) ==
    LET n_elecs == Prod(shape)
        rows    == shape[1]
        nm      == MakeNames(shape, a.names.v)
        n_pos   == Max0(rows) * Max0(rows)
        n_zip   == Min(Min(n_pos, n_elecs), Len(nm.names))
    IN  IF nm.exc # "none" THEN Result(nm.exc, nm.why, <<>>)
        ELSE IF a.z.islist /\ a.z.len # n_elecs
        THEN Result("ValueError", "z length", <<>>)
        ELSE IF a.etype = "DiskElectrode" /\ a.r.islist /\ a.r.len # n_elecs
        THEN Result("ValueError", "r length", <<>>)
        ELSE InsertAll(<<>>, nm.names, 1, n_zip)

\* Mutant of _make_grid: the length of the r list is checked after the
\* insertion loop.
_make_grid_late(shape, a) ==
    LET n_elecs == Prod(shape)
        rows    == shape[1]
        cols    == shape[2]
        nm      == MakeNames(shape, a.names.v)
        n_pos   == Max0(rows) * Max0(cols)
        n_zip   == Min(Min(n_pos, n_elecs), Len(nm.names))
        done    == InsertAll(<<>>, nm.names, 1, n_zip)
    IN  IF nm.exc # "none" THEN Result(nm.exc, nm.why, <<>>)
        ELSE IF a.z.islist /\ a.z.len # n_elecs
        THEN Result("ValueError", "z length", <<>>)
        ELSE IF done.exc # "none" THEN done
        ELSE IF a.etype = "DiskElectrode" /\ a.r.islist /\ a.r.len # n_elecs
        THEN Result("ValueError", "r length", done.electrodes)
        ELSE done

\* _make_grid, lines 466-578.
_make_grid(shape, a) ==
    LET n_elecs == Prod(shape)
        rows    == shape[1]
        cols    == shape[2]
        nm      == MakeNames(shape, a.names.v)
        n_pos   == Max0(rows) * Max0(cols)
        n_zip   == Min(Min(n_pos, n_elecs), Len(nm.names))
    IN  IF nm.exc # "none" THEN Result(nm.exc, nm.why, <<>>)
        ELSE IF a.z.islist /\ a.z.len # n_elecs
        THEN Result("ValueError", "z length", <<>>)
        ELSE IF a.etype = "DiskElectrode" /\ a.r.islist /\ a.r.len # n_elecs
        THEN Result("ValueError", "r length", <<>>)
        ELSE InsertAll(<<>>, nm.names, 1, n_zip)

\* ElectrodeGrid.__init__, lines 378-419.
GridInit(a) ==
    IF ~a.names.isseq THEN Result("TypeError", "names", <<>>)
    ELSE IF ~a.shape.isseq THEN Result("TypeError", "shape", <<>>)
    ELSE IF Len(a.shape.v) # 2 THEN Result("ValueError", "shape length", <<>>)
    ELSE IF Prod(a.shape.v) <= 0 THEN Result("ValueError", "shape", <<>>)
    ELSE IF ~a.type.isstr THEN Result("TypeError", "type", <<>>)
    ELSE IF ~a.orientation.isstr THEN Result("TypeError", "orientation", <<>>)
    ELSE IF a.type.v \notin {"rect", "hex"} THEN Result("ValueError", "type", <<>>)
    ELSE IF a.orientation.v \notin {"horizontal", "vertical"}
    THEN Result("ValueError", "orientation", <<>>)
    ELSE IF a.etype \notin {"PointSource", "DiskElectrode"}
    THEN Result("TypeError", "etype", <<>>)
    ELSE IF a.etype = "DiskElectrode" /\ ~a.r.given
    THEN Result("ValueError", "r missing", <<>>)
    ELSE IF Len(a.names.v) # 2 /\ Len(a.names.v) # Prod(a.shape.v)
    THEN Result("ValueError", "names length", <<>>)
    ELSE _make_grid(a.shape.v, a)

\* ElectrodeGrid.__getitem__ for an item that is not a list.
RavelOk(item, shape) ==
    /\ item.t = "tuple"
    /\ 0 <= item.i /\ item.i < shape[1]
    /\ 0 <= item.j /\ item.j < shape[2]
\* Mutant of Ravel: column-major.
Ravel_colmajor(item, shape) == item.j * shape[1] + item.i
Ravel(item, shape) == item.i * shape[2] + item.j

GridGetItem(es, shape, item) ==
    IF HasKey(es, item) THEN Lookup("none", DictGet(es, item))
    ELSE IF item.t = "int" /\ PyIndex(Len(es), item.i) # 0
    THEN Lookup("none", electrode_objects(es)[PyIndex(Len(es), item.i)])
    ELSE IF ~RavelOk(item, shape) THEN Lookup("none", NoneValue)
    ELSE IF Ravel(item, shape) >= Len(es) THEN Lookup("IndexError", NoneValue)
    ELSE Lookup("none", electrode_objects(es)[Ravel(item, shape) + 1])

\* ------------------------------------------------------- grid geometry
\* The spacing argument: one number, or a pair (x_spc, y_spc).
ScalarSpacing(s)  == [scalar |-> TRUE, x |-> s, y |-> s]
PairSpacing(x, y) == [scalar |-> FALSE, x |-> x, y |-> y]

\* Mutant of Spacing2: no hexagonal adjustment of the other axis.
Spacing2_square(spacing, type, orientation) ==
    [x |-> 4 * spacing.x * spacing.x, y |-> 4 * spacing.y * spacing.y]

\* _make_grid, lines 524-534: x_spc and y_spc.  Lengths are kept exact by
\* their squares, in quarters of the squared unit of the spacing argument:
\* x_spc^2 = Spacing2.x / 4, and (s * sqrt(3) / 2)^2 = 3 * s^2 / 4.
Spacing2(spacing, type, orientation) ==
    IF ~spacing.scalar
    THEN [x |-> 4 * spacing.x * spacing.x, y |-> 4 * spacing.y * spacing.y]
    ELSE IF type = "hex"
    THEN IF orientation = "horizontal"
         THEN [x |-> 4 * spacing.x * spacing.x, y |-> 3 * spacing.x * spacing.x]
         ELSE [x |-> 3 * spacing.y * spacing.y, y |-> 4 * spacing.y * spacing.y]
    ELSE [x |-> 4 * spacing.x * spacing.x, y |-> 4 * spacing.y * spacing.y]

\* _make_grid, lines 537-555: x_arr and y_arr before the rotation and the
\* translation, raveled row-major, in quarters of x_spc and of y_spc:
\* arange(cols) * x_spc - 0.5 * (cols - 1) * x_spc, and for a hexagonal grid
\* every other row (column), from the first, moved by half a step and then
\* all of them back by a quarter step.
XArr(rows, cols, type, orientation) ==
    [k \in 1..(Max0(rows) * Max0(cols)) |->
        LET i == (k - 1) \div cols
            j == (k - 1) % cols
        IN  4 * j - 2 * (cols - 1)
            + IF type = "hex" /\ orientation = "horizontal"
              THEN (IF i % 2 = 0 THEN 2 ELSE 0) - 1
              ELSE 0]
YArr(rows, cols, type, orientation) ==
    [k \in 1..(Max0(rows) * Max0(cols)) |->
        LET i == (k - 1) \div cols
            j == (k - 1) % cols
        IN  4 * i - 2 * (rows - 1)
            + IF type = "hex" /\ orientation = "vertical"
              THEN (IF j % 2 = 0 THEN 2 ELSE 0) - 1
              ELSE 0]

NoGeometry ==
    [type |-> "", orientation |-> "", spacing |-> ScalarSpacing(0),
     x_spc2 |-> 0, y_spc2 |-> 0, x_arr |-> <<>>, y_arr |-> <<>>]
Geometry(a, spacing) ==
    [type |-> a.type.v, orientation |-> a.orientation.v, spacing |-> spacing,
     x_spc2 |-> Spacing2(spacing, a.type.v, a.orientation.v).x,
     y_spc2 |-> Spacing2(spacing, a.type.v, a.orientation.v).y,
     x_arr |-> XArr(a.shape.v[1], a.shape.v[2], a.type.v, a.orientation.v),
     y_arr |-> YArr(a.shape.v[1], a.shape.v[2], a.type.v, a.orientation.v)]

\* ----------------------------------------------------------- activation
\* The argument of activate / deactivate: np.isscalar holds of a string or
\* a number, not of a list or a tuple, which are iterated.
ScalarArg(item) == [scalar |-> TRUE, items |-> <<item>>]
ListArg(items)  == [scalar |-> FALSE, items |-> items]
All == StrItem(<<"a", "l", "l">>)

\* self.__getitem__(item) of the array or of the grid.
GetItemOf(c, es, sh, item) ==
    IF c = "grid" THEN GridGetItem(es, sh, item) ELSE ArrayGetItem(es, item)

\* Mutant of SetActivated: a key that does not resolve is skipped.
RECURSIVE SetActivated_skip(_, _, _, _, _, _, _)
SetActivated_skip(c, es, sh, off, items, k, value) ==
    IF k > Len(items) THEN [exc |-> "none", deactivated |-> off, done |-> k - 1]
    ELSE LET r == GetItemOf(c, es, sh, items[k])
         IN  IF r.exc # "none" \/ r.ret = NoneValue
             THEN [SetActivated_skip(c, es, sh, off, items, k + 1, value)
                       EXCEPT !.exc = "AttributeError", !.done = k - 1]
             ELSE SetActivated_skip(c, es, sh,
                      IF value THEN off \ {r.ret} ELSE off \cup {r.ret},
                      items, k + 1, value)

\* Lines 113-114 and 122-123: self.__getitem__(electrode).activated = value
\* for each electrode in turn.  off is the set of Electrode objects whose
\* flag is False; a lookup that raises ends the loop, and so does a lookup
\* that returns None, which has no attribute to set.
RECURSIVE SetActivated(_, _, _, _, _, _, _)
SetActivated(c, es, sh, off, items, k, value) ==
    IF k > Len(items) THEN [exc |-> "none", deactivated |-> off, done |-> k - 1]
    ELSE LET r == GetItemOf(c, es, sh, items[k])
         IN  IF r.exc # "none"
             THEN [exc |-> r.exc, deactivated |-> off, done |-> k - 1]
             ELSE IF r.ret = NoneValue
             THEN [exc |-> "AttributeError", deactivated |-> off, done |-> k - 1]
             ELSE SetActivated(c, es, sh,
                      IF value THEN off \ {r.ret} ELSE off \cup {r.ret},
                      items, k + 1, value)

\* Mutant of Addressed: 'all' is one more key.
Addressed_literal(es, arg) == arg.items

\* Lines 108-112 and 117-121: the keys the loop runs over.
Addressed(es, arg) ==
    IF arg.scalar /\ arg.items[1] = All THEN electrode_names(es) ELSE arg.items

activate(c, es, sh, off, arg) ==
    SetActivated(c, es, sh, off, Addressed(es, arg), 1, TRUE)
deactivate(c, es, sh, off, arg) ==
    SetActivated(c, es, sh, off, Addressed(es, arg), 1, FALSE)

\* ------------------------------------------------------- state machine
VARIABLES
    cls,         \* "none" | "array" | "grid" | "failed": what was constructed
    electrodes,  \* self._electrodes
    shape,       \* self.shape of a grid, <<0, 0>> otherwise
    nextId,      \* identity of the next Electrode object to be created
    steps,       \* add_electrode / remove_electrode calls so far
    ctor,        \* the shape and names arguments the constructor was given
    last,        \* the last call: its arguments, its outcome, the mapping before
    given,       \* the electrodes argument ElectrodeArray was constructed with
    geom,        \* the lattice _make_grid generated, before rotation
    deactivated, \* the Electrode objects whose activated attribute is False
    act          \* the last activate / deactivate call: argument, flags before

vars == <<cls, electrodes, shape, nextId, steps, ctor, last, given, geom,
          deactivated, act>>

NoSeq == [isseq |-> FALSE, v |-> <<>>]
Ctor(sh, nm) == [shape |-> sh, names |-> nm]
NoInput == [form |-> "none", d |-> <<>>, l |-> <<>>]
NoAct   == [arg |-> ListArg(<<>>), done |-> 0, pre |-> {}]
Call(op, item, elec, exc, why, ret, pre) ==
    [op |-> op, item |-> item, elec |-> elec, exc |-> exc, why |-> why,
     ret |-> ret, pre |-> pre]

\* --------------------------------------------------------------- inputs
SeqsUpTo(S, n) == UNION {[1..m -> S] : m \in 0..n}

\* Lists whose k-th element is the Electrode k or no Electrode at all.
ListInputs == {l \in SeqsUpTo(0..MaxInit, MaxInit) :
                  \A k \in 1..Len(l) : l[k] \in {NotElectrode, k}}
DictKeys   == {IntItem(1), IntItem(0), StrItem(<<"A", "1">>)}
DictInputs == {d \in SeqsUpTo([key : DictKeys, obj : 0..MaxInit], MaxInit) :
                  /\ \A k \in 1..Len(d) : d[k].obj \in {NotElectrode, k}
                  /\ \A k, m \in 1..Len(d) : k # m => d[k].key # d[m].key}
ArrayInputs ==
    {[form |-> "dict", d |-> d, l |-> <<>>] : d \in DictInputs}
    \cup {[form |-> "list", d |-> <<>>, l |-> l] : l \in ListInputs}
    \cup {[form |-> "single", d |-> <<>>, l |-> <<1>>],
          [form |-> "other", d |-> <<>>, l |-> <<>>]}

Scalar == [given |-> TRUE, islist |-> FALSE, len |-> 0]
Absent == [given |-> FALSE, islist |-> FALSE, len |-> 0]
ListOf(n) == [given |-> TRUE, islist |-> TRUE, len |-> n]
StrTok(v) == [isstr |-> TRUE, v |-> v]
NonStr    == [isstr |-> FALSE, v |-> ""]
SeqArg(v) == [isseq |-> TRUE, v |-> v]

GridArgs(sh, nm, ty, ori, et, r, z) ==
    [shape |-> sh, names |-> nm, type |-> ty, orientation |-> ori,
     etype |-> et, r |-> r, z |-> z]

DefaultNames == SeqArg(<<StrItem(<<"A">>), StrItem(<<"1">>)>>)
\* An explicit list of n integer names n-1, ..., 0.
IntNames(n)  == SeqArg([k \in 1..n |-> IntItem(n - k)])
ValidShapes  == {SeqArg(<<r, c>>) : r \in 1..MaxRows, c \in 1..MaxCols}

\* The grids the add / remove / lookup sequences start from.
PlainGrids ==
    UNION {{GridArgs(sh, nm, StrTok("rect"), StrTok("horizontal"),
                     "PointSource", Absent, Scalar) :
               nm \in {DefaultNames, IntNames(Prod(sh.v))}} : sh \in ValidShapes}

\* Every argument shape the constructor's checks tell apart.
AllShapes ==
    {SeqArg(<<r, c>>) : r \in (0 - MaxRows)..MaxRows, c \in (0 - MaxCols)..MaxCols}
    \cup {NoSeq, SeqArg(<<2>>), SeqArg(<<1, 2, 1>>)}
SchemeStrs == {<<"A">>, <<"1">>, <<"-", "A">>, <<"-", "1">>, <<"-">>}
\* Explicit lists of n names: E1..En, n-1..0, and E repeated.
StrNames(n) == SeqArg([k \in 1..n |-> StrItem(<<"E">> \o DecStr(k))])
DupNames(n) == SeqArg([k \in 1..n |-> StrItem(<<"E">>)])
CellCounts  == {r * c : r \in 1..MaxRows, c \in 1..MaxCols}
AllNames ==
    {SeqArg(<<StrItem(a), StrItem(b)>>) : a \in SchemeStrs, b \in SchemeStrs}
    \cup {SeqArg(<<IntItem(1), StrItem(<<"A">>)>>),
          SeqArg(<<StrItem(<<"A">>), IntItem(1)>>), NoSeq}
    \cup UNION {{StrNames(n), IntNames(n), DupNames(n)} : n \in CellCounts}
Tokens(good) == {StrTok(v) : v \in good} \cup {StrTok("other"), NonStr}
EtypeAndR ==
    {<<"PointSource", Absent>>, <<"NotElectrode", Absent>>,
     <<"DiskElectrode", Absent>>, <<"DiskElectrode", Scalar>>,
     <<"DiskElectrode", ListOf(2)>>, <<"DiskElectrode", ListOf(4)>>}
ZArgs == {Scalar, ListOf(2), ListOf(4)}

AddKeys == {IntItem(0), IntItem(1), StrItem(<<"A", "1">>), StrItem(<<"Z">>)}
RemoveNames(es) == Range(electrode_names(es)) \cup {StrItem(<<"Z">>), IntItem(0)}
LookupItems(es) ==
    Range(electrode_names(es))
    \cup {StrItem(<<"Z">>)}
    \cup {IntItem(i) : i \in (0..Len(es)) \cup {-1, 0 - (Len(es) + 1)}}
    \cup {TupItem(i, j) : i \in 0..(MaxRows - 1), j \in 0..(MaxCols - 1)}
    \cup {TupItem(-1, 0)}

\* Arguments of activate / deactivate: 'all', one key, two keys in a list,
\* drawn from the first and the last key, position 0, an absent string and
\* an integer past the end, or an absent string between two keys.
ActKeys(es) == {es[k].key : k \in {1, Len(es)} \cap (1..Len(es))}
ActItems(es) ==
    ActKeys(es) \cup {IntItem(0), StrItem(<<"Z">>), IntItem(Len(es))}
ActArgs(es) ==
    {ScalarArg(All)}
    \cup {ScalarArg(item) : item \in ActItems(es)}
    \cup {ListArg(<<a, b>>) : a, b \in ActItems(es)}
    \cup {ListArg(<<a, StrItem(<<"Z">>), b>>) : a, b \in ActKeys(es)}
GeomShapes == {SeqArg(<<r, c>>) : r \in 1..GeomRows, c \in 1..GeomCols}
Spacings ==
    {ScalarSpacing(s) : s \in 1..MaxSpacing}
    \cup {PairSpacing(x, y) : x, y \in 1..MaxSpacing}

\* -------------------------------------------------------------- actions
Init ==
    /\ cls = "none"
    /\ electrodes = <<>>
    /\ shape = <<0, 0>>
    /\ nextId = 1
    /\ steps = 0
    /\ ctor = Ctor(NoSeq, NoSeq)
    /\ last = Call("none", IntItem(0), NotElectrode, "none", "", NoneValue, <<>>)
    /\ given = NoInput
    /\ geom = NoGeometry
    /\ deactivated = {}
    /\ act = NoAct

NewArray(input) ==
    /\ cls = "none"
    /\ LET r == ArrayInit(input)
       IN  /\ cls' = IF r.exc = "none" THEN "array" ELSE "failed"
           /\ electrodes' = r.electrodes
           /\ nextId' = Len(r.electrodes) + 1
           /\ last' = Call("ElectrodeArray", IntItem(0), NotElectrode, r.exc,
                           r.why, NoneValue, <<>>)
    /\ given' = input
    /\ UNCHANGED <<shape, steps, ctor, geom, deactivated, act>>

\* ElectrodeGrid(shape, spacing, ...).
NewGridSpaced(a, spacing) ==
    /\ cls = "none"
    /\ LET r == GridInit(a)
       IN  /\ cls' = IF r.exc = "none" THEN "grid" ELSE "failed"
           /\ electrodes' = r.electrodes
           /\ shape' = IF r.exc = "none" THEN a.shape.v ELSE <<0, 0>>
           /\ nextId' = Len(r.electrodes) + 1
           /\ last' = Call("ElectrodeGrid", IntItem(0), NotElectrode, r.exc,
                           r.why, NoneValue, <<>>)
           /\ geom' = IF r.exc = "none" THEN Geometry(a, spacing) ELSE NoGeometry
    /\ ctor' = Ctor(a.shape, a.names)
    /\ UNCHANGED <<steps, given, deactivated, act>>

NewGrid(a) == NewGridSpaced(a, ScalarSpacing(1))

AddElectrode(name, isElectrode) ==
    /\ cls \in {"array", "grid"}
    /\ steps < MaxOps
    /\ LET e == IF isElectrode THEN nextId ELSE NotElectrode
           r == add_electrode(electrodes, name, e)
       IN  /\ electrodes' = r.electrodes
           /\ nextId' = IF isElectrode THEN nextId + 1 ELSE nextId
           /\ last' = Call("add_electrode", name, e, r.exc, r.why, NoneValue,
                           electrodes)
    /\ steps' = steps + 1
    /\ UNCHANGED <<cls, shape, ctor, given, geom, deactivated, act>>

RemoveElectrode(name) ==
    /\ cls \in {"array", "grid"}
    /\ steps < MaxOps
    /\ LET r == remove_electrode(electrodes, name)
       IN  /\ electrodes' = r.electrodes
           /\ last' = Call("remove_electrode", name, NotElectrode, r.exc, r.why,
                           NoneValue, electrodes)
    /\ steps' = steps + 1
    /\ UNCHANGED <<cls, shape, nextId, ctor, given, geom, deactivated, act>>

GetItem(item) ==
    /\ cls \in {"array", "grid"}
    /\ LET r == IF cls = "grid" THEN GridGetItem(electrodes, shape, item)
                ELSE ArrayGetItem(electrodes, item)
       IN  last' = Call("getitem", item, NotElectrode, r.exc, "", r.ret,
                        electrodes)
    /\ UNCHANGED <<cls, electrodes, shape, nextId, steps, ctor, given, geom,
                   deactivated, act>>

\* activate(arg) for value TRUE, deactivate(arg) for value FALSE.
SetFlags(arg, value) ==
    /\ cls \in {"array", "grid"}
    /\ steps < MaxOps
    /\ LET r == IF value THEN activate(cls, electrodes, shape, deactivated, arg)
                ELSE deactivate(cls, electrodes, shape, deactivated, arg)
       IN  /\ deactivated' = r.deactivated
           /\ last' = Call(IF value THEN "activate" ELSE "deactivate",
                           IntItem(0), NotElectrode, r.exc, "", NoneValue,
                           electrodes)
           /\ act' = [arg |-> arg, done |-> r.done, pre |-> deactivated]
    /\ steps' = steps + 1
    /\ UNCHANGED <<cls, electrodes, shape, nextId, ctor, given, geom>>

Activate(arg)   == SetFlags(arg, TRUE)
Deactivate(arg) == SetFlags(arg, FALSE)

Next ==
    \/ cls = "none" /\ \E input \in ArrayInputs : NewArray(input)
    \/ cls = "none" /\ \E a \in PlainGrids : NewGrid(a)
    \/ cls # "none" /\ \E name \in AddKeys, isElectrode \in BOOLEAN :
                           AddElectrode(name, isElectrode)
    \/ cls # "none" /\ \E name \in RemoveNames(electrodes) : RemoveElectrode(name)
    \/ cls # "none" /\ \E item \in LookupItems(electrodes) : GetItem(item)

Spec == Init /\ [][Next]_vars

\* Construction alone, over every argument combination, then lookups.
GridNext ==
    \/ cls = "none" /\ \E sh \in AllShapes, nm \in AllNames,
                           ty \in Tokens({"rect", "hex"}),
                           ori \in Tokens({"horizontal", "vertical"}),
                           er \in EtypeAndR, z \in ZArgs :
                           NewGrid(GridArgs(sh, nm, ty, ori, er[1], er[2], z))
    \/ cls # "none" /\ \E item \in LookupItems(electrodes) : GetItem(item)

GridSpec == Init /\ [][GridNext]_vars

\* Construction, removals and activation calls.
ActNext ==
    \/ cls = "none" /\ \E input \in ArrayInputs : NewArray(input)
    \/ cls = "none" /\ \E a \in PlainGrids : NewGrid(a)
    \/ cls # "none" /\ \E name \in RemoveNames(electrodes) : RemoveElectrode(name)
    \/ cls # "none" /\ \E arg \in ActArgs(electrodes) : Activate(arg)
    \/ cls # "none" /\ \E arg \in ActArgs(electrodes) : Deactivate(arg)

ActSpec == Init /\ [][ActNext]_vars

\* The lattice of rectangular and hexagonal grids of every bounded shape.
GeomNext ==
    cls = "none" /\ \E sh \in GeomShapes, ty \in {"rect", "hex"},
                       ori \in {"horizontal", "vertical"}, sp \in Spacings :
                       NewGridSpaced(GridArgs(sh, DefaultNames, StrTok(ty),
                                              StrTok(ori), "PointSource",
                                              Absent, Scalar), sp)

GeomSpec == Init /\ [][GeomNext]_vars

\* ---------------------------------------------------------------- C1
\* Electrode k is the k-th object created and every insertion stores a
\* newly created object, so the entries are in insertion order exactly when
\* their identities increase along the mapping.
Constructed == cls \in {"array", "grid"}
KeysDistinct(es) == \A k, m \in 1..Len(es) : k # m => es[k].key # es[m].key
InInsertionOrder(es) == \A k, m \in 1..Len(es) : k < m => es[k].obj < es[m].obj

\* C1: in every state reached by a construction followed by add_electrode /
\* remove_electrode calls, failed ones included, the keys are pairwise
\* distinct, __iter__, electrode_names and electrode_objects list the
\* surviving entries in insertion order, n_electrodes is the number of keys,
\* and a key that is added (again) stands at the end of the order.
C1_OrderedUniqueKeys ==
    Constructed =>
        /\ KeysDistinct(electrodes)
        /\ InInsertionOrder(electrodes)
        /\ Iter(electrodes) = [k \in 1..Len(electrodes) |-> electrodes[k].key]
        /\ electrode_names(electrodes) = Iter(electrodes)
        /\ electrode_objects(electrodes) =
               [k \in 1..Len(electrodes) |-> electrodes[k].obj]
        /\ n_electrodes(electrodes) =
               Cardinality({electrodes[k].key : k \in 1..Len(electrodes)})
        /\ (last.op = "add_electrode" /\ last.exc = "none" =>
               /\ Len(electrodes) >= 1
               /\ electrodes[Len(electrodes)].key = last.item
               /\ \A k \in 1..(Len(electrodes) - 1) : electrodes[k].key # last.item)

\* Key 0 of ElectrodeArray([e1, e2]) was removed and added again: it now
\* follows key 1.
C1_Witness ==
    /\ cls = "array"
    /\ last.op = "add_electrode" /\ last.exc = "none" /\ last.item = IntItem(0)
    /\ electrode_names(electrodes) = <<IntItem(1), IntItem(0)>>
    /\ electrode_objects(electrodes) = <<2, 3>>

\* ---------------------------------------------------------------- C2
\* C2: add_electrode(key, electrode) raises TypeError when electrode is not
\* an Electrode and ValueError when the key is present (TypeError when both),
\* leaving the mapping as it was; when it succeeds the mapping is the old
\* one with (key, electrode) appended.
C2_AddElectrode ==
    last.op = "add_electrode" =>
        LET present == \E k \in 1..Len(last.pre) : last.pre[k].key = last.item
        IN  /\ ~IsElectrode(last.elec) => last.exc = "TypeError"
            /\ IsElectrode(last.elec) /\ present => last.exc = "ValueError"
            /\ IsElectrode(last.elec) /\ ~present => last.exc = "none"
            /\ last.exc # "none" => electrodes = last.pre
            /\ last.exc = "none" =>
                   electrodes = Append(last.pre, [key |-> last.item, obj |-> last.elec])

\* A duplicate key was refused on a mapping of two entries.
C2_Witness ==
    /\ last.op = "add_electrode" /\ last.exc = "ValueError"
    /\ IsElectrode(last.elec)
    /\ Len(electrodes) >= 2

\* ---------------------------------------------------------------- C3
Without(es, name) == SelectSeq(es, LAMBDA e : e.key # name)

\* C3: remove_electrode(key) raises ValueError when key is not a current
\* key and leaves the mapping as it was; otherwise exactly the entry under
\* key goes and the others keep their values and their relative order.
C3_RemoveElectrode ==
    last.op = "remove_electrode" =>
        LET present == \E k \in 1..Len(last.pre) : last.pre[k].key = last.item
        IN  /\ ~present => last.exc = "ValueError" /\ electrodes = last.pre
            /\ present =>
                   /\ last.exc = "none"
                   /\ Len(electrodes) = Len(last.pre) - 1
                   /\ electrodes = Without(last.pre, last.item)

\* An entry that was not the last one was removed from a mapping of three.
C3_Witness ==
    /\ last.op = "remove_electrode" /\ last.exc = "none"
    /\ Len(last.pre) >= 3
    /\ last.pre[1].key = last.item

\* ---------------------------------------------------------------- C4
\* The names argument has the two-string (row scheme, column scheme) form.
SchemeArg ==
    /\ ctor.names.isseq
    /\ Len(ctor.names.v) = 2
    /\ ctor.names.v[1].t = "str" /\ ctor.names.v[2].t = "str"
FreshGrid == cls = "grid" /\ steps = 0

\* C4: in a freshly constructed grid with scheme-generated names, for every
\* cell (row, col) of the shape, the lookups by the cell's name, by the flat
\* index row*cols + col and by (row, col) all return the electrode inserted
\* at row-major position row*cols + col (the k-th created electrode is k).
C4_ThreeWayLookup ==
    FreshGrid /\ SchemeArg =>
        /\ \A row \in 0..(shape[1] - 1), col \in 0..(shape[2] - 1) :
               LET k == row * shape[2] + col + 1
               IN  /\ k <= Len(electrodes)
                   /\ electrodes[k].obj = k
                   /\ GridGetItem(electrodes, shape, electrodes[k].key)
                          = Lookup("none", k)
                   /\ GridGetItem(electrodes, shape, IntItem(k - 1))
                          = Lookup("none", k)
                   /\ GridGetItem(electrodes, shape, TupItem(row, col))
                          = Lookup("none", k)
        /\ (last.op = "getitem" /\ last.item.t = "tuple"
              /\ last.item.i \in 0..(shape[1] - 1)
              /\ last.item.j \in 0..(shape[2] - 1) =>
               /\ last.exc = "none"
               /\ last.ret = last.item.i * shape[2] + last.item.j + 1)

\* grid[1, 0] of a fresh 2x2 grid named by a scheme returned the third
\* electrode.
C4_Witness ==
    /\ FreshGrid /\ SchemeArg
    /\ shape = <<2, 2>>
    /\ last.op = "getitem" /\ last.item = TupItem(1, 0)
    /\ last.ret = 3 /\ electrodes[3].obj = 3

\* ---------------------------------------------------------------- C5
\* C5: a grid lookup of a single item resolves by key, then by flat
\* position, then by (row, col) raveled row-major with the grid's shape, and
\* returns None without raising when none of these resolves, in every
\* reachable state of the grid, also after remove_electrode / add_electrode.
C5_GridLookupNeverRaises ==
    cls = "grid" /\ last.op = "getitem" =>
        LET es   == electrodes
            item == last.item
            n    == Len(es)
            isKey == \E k \in 1..n : es[k].key = item
            isPos == item.t = "int" /\ -n <= item.i /\ item.i < n
            isCell == /\ item.t = "tuple"
                      /\ 0 <= item.i /\ item.i < shape[1]
                      /\ 0 <= item.j /\ item.j < shape[2]
                      /\ item.i * shape[2] + item.j < n
        IN  /\ last.exc = "none"
            /\ isKey => \E k \in 1..n : es[k].key = item /\ last.ret = es[k].obj
            /\ ~isKey /\ isPos =>
                   last.ret = es[IF item.i >= 0 THEN item.i + 1 ELSE n + item.i + 1].obj
            /\ ~isKey /\ ~isPos /\ isCell =>
                   last.ret = es[item.i * shape[2] + item.j + 1].obj
            /\ ~isKey /\ ~isPos /\ ~isCell => last.ret = NoneValue

C7_StopIteration ==
    cls = "array" /\ last.op = "getitem" /\ last.item.t = "int" =>
        LET n == Len(electrodes)
            isKey == \E k \in 1..n : electrodes[k].key = last.item
            isPos == -n <= last.item.i /\ last.item.i < n
        IN  /\ ~isKey /\ ~isPos => last.exc = "StopIteration" /\ last.ret = NoneValue
            /\ last.exc = "StopIteration" => ~isKey /\ ~isPos

\* array[2] on an array of two electrodes with keys 0 and 1.
C7_Witness ==
    /\ cls = "array" /\ last.op = "getitem" /\ last.item = IntItem(2)
    /\ electrode_names(electrodes) = <<IntItem(0), IntItem(1)>>
    /\ last.exc = "StopIteration"

\* ---------------------------------------------------------------- C8
\* C8: a constructed grid of shape (rows, cols), rows >= 1 and cols >= 1,
\* holds exactly rows*cols entries with pairwise distinct names, whatever
\* the type, orientation and naming arguments it was built with.
C8_GridSize ==
    FreshGrid /\ shape[1] >= 1 /\ shape[2] >= 1 =>
        /\ Len(electrodes) = shape[1] * shape[2]
        /\ KeysDistinct(electrodes)
        /\ Cardinality({electrodes[k].key : k \in 1..Len(electrodes)})
               = shape[1] * shape[2]

\* A 1x2 grid built with the scheme ('-1', 'A'), whose two entries become
\* its two keys.
C8_Witness ==
    /\ FreshGrid /\ last.op = "ElectrodeGrid"
    /\ shape = <<1, 2>>
    /\ ctor.names = SeqArg(<<StrItem(<<"-", "1">>), StrItem(<<"A">>)>>)
    /\ Len(electrodes) = 2

\* ---------------------------------------------------------------- C9
BadShape(sh) == ~sh.isseq \/ Len(sh.v) # 2 \/ sh.v[1] <= 0 \/ sh.v[2] <= 0

\* C9: ElectrodeGrid construction fails with a validation error whenever
\* shape is not a 2-element sequence or one of its entries is not positive,
\* also when both entries are negative.
C9_BadShapeRejected ==
    last.op = "ElectrodeGrid" /\ BadShape(ctor.shape) =>
        last.exc \in {"TypeError", "ValueError"}

\* --------------------------------------------------------------- C10
\* The failures of the constructor's own checks; "key exists" is the
\* failure of add_electrode inside the insertion loop.
ValidationFailures ==
    {"names", "shape", "shape length", "type", "orientation", "etype",
     "r missing", "names length", "row name", "column name", "z length",
     "r length"}

AxisName(scheme, n, i) ==
    LET idx == IF "-" \in Range(scheme) THEN n - 1 - i ELSE i
    IN  IF isalpha(StripDash(scheme)) THEN <<Letters[idx + 1]>>
        ELSE DecStr(idx + 1)
\* The name of cell (i, j): row name then column name, letters first.
CellName(name_rows, name_cols, rows, cols, i, j) ==
    IF isalpha(StripDash(name_cols)) /\ ~isalpha(StripDash(name_rows))
    THEN AxisName(name_cols, cols, j) \o AxisName(name_rows, rows, i)
    ELSE AxisName(name_rows, rows, i) \o AxisName(name_cols, cols, j)
\* The fresh grid's names argument was read as (row scheme, column scheme).
SchemeUsed == FreshGrid /\ SchemeArg /\ Prod(shape) # 2
Strs(names) == [k \in 1..Len(names) |-> names[k].s]

\* C11: when the names argument is read as a (row scheme, column scheme)
\* pair, the key of cell (i, j) is rowname(i) followed by colname(j), or
\* colname(j) followed by rowname(i) when only the column scheme is
\* alphabetic, '-' reversing the sequence of its axis, and the cells are
\* inserted in row-major order; ('A', '1') on a 3x3 grid gives A1..C3 and
\* ('-A', '1') gives C1..A3.
C11_SchemeNaming ==
    /\ SchemeUsed =>
           /\ Len(electrodes) = Max0(shape[1]) * Max0(shape[2])
           /\ \A i \in 0..(shape[1] - 1), j \in 0..(shape[2] - 1) :
                  LET e == electrodes[i * shape[2] + j + 1]
                  IN  /\ e.obj = i * shape[2] + j + 1
                      /\ e.key = StrItem(CellName(ctor.names.v[1].s,
                                                  ctor.names.v[2].s,
                                                  shape[1], shape[2], i, j))
    /\ Strs(SchemeNames(<<"A">>, <<"1">>, 3, 3))
           = << <<"A", "1">>, <<"A", "2">>, <<"A", "3">>,
                <<"B", "1">>, <<"B", "2">>, <<"B", "3">>,
                <<"C", "1">>, <<"C", "2">>, <<"C", "3">> >>
    /\ Strs(SchemeNames(<<"-", "A">>, <<"1">>, 3, 3))
           = << <<"C", "1">>, <<"C", "2">>, <<"C", "3">>,
                <<"B", "1">>, <<"B", "2">>, <<"B", "3">>,
                <<"A", "1">>, <<"A", "2">>, <<"A", "3">> >>

\* A 2x2 grid built with ('1', '-A'): B1, A1, B2, A2.
C11_Witness ==
    /\ SchemeUsed /\ shape = <<2, 2>> /\ last.op = "ElectrodeGrid"
    /\ ctor.names = SeqArg(<<StrItem(<<"1">>), StrItem(<<"-", "A">>)>>)
    /\ Strs(electrode_names(electrodes))
           = << <<"B", "1">>, <<"A", "1">>, <<"B", "2">>, <<"A", "2">> >>

FlagCall == last.op \in {"activate", "deactivate"}
Activated(e) == e \notin deactivated

\* C12: right after activate('all') every electrode in the array has its
\* flag true, and right after deactivate('all') every one has it false,
\* whatever the flags were before and whatever the keys are; the call does
\* not raise.
C12_AllFlags ==
    FlagCall /\ act.arg = ScalarArg(All) =>
        /\ last.exc = "none"
        /\ \A k \in 1..Len(electrodes) :
               Activated(electrodes[k].obj) <=> (last.op = "activate")

\* An array built from a list of two, its key 0 removed, so that the key 1
\* is at position 0, after deactivate('all').
C12_Witness ==
    /\ cls = "array" /\ last.op = "deactivate" /\ act.arg = ScalarArg(All)
    /\ electrodes = <<[key |-> IntItem(1), obj |-> 2]>>
    /\ act.pre = {} /\ deactivated = {2}

\* --------------------------------------------------------------- C16
\* The keys of the call, and for each of them whether the lookup gave an
\* electrode of the mapping as it was before the call.
CallKeys == Addressed(last.pre, act.arg)
Resolves(key) ==
    LET r == GetItemOf(cls, last.pre, shape, key)
    IN  r.exc = "none" /\ r.ret # NoneValue
Target(key) == GetItemOf(cls, last.pre, shape, key).ret
\* The keys before the first one that does not resolve.
Reached == {k \in 1..Len(CallKeys) : \A m \in 1..k : Resolves(CallKeys[m])}
Hit == {Target(CallKeys[k]) : k \in Reached}

\* C16: activate(keys) and deactivate(keys) leave the mapping (keys, order,
\* objects) as it was; they raise exactly when one of the keys does not
\* resolve to an electrode; the electrodes the keys before the first such
\* key resolve to have the new flag, and every other electrode, those
\* addressed after that key included, has the flag it had.
C16_FlagsFrame ==
    FlagCall =>
        /\ electrodes = last.pre
        /\ (last.exc = "none") <=> (\A k \in 1..Len(CallKeys) : Resolves(CallKeys[k]))
        /\ act.done = Cardinality(Reached)
        /\ \A e \in Hit : Activated(e) <=> (last.op = "activate")
        /\ \A e \in 1..nextId : e \notin Hit => (Activated(e) <=> e \notin act.pre)

\* deactivate([0, 'Z', 1]) on an array with the keys 0 and 1: the call
\* raises at 'Z', electrode 0 is deactivated and electrode 1 is not.
C16_Witness ==
    /\ cls = "array" /\ last.op = "deactivate" /\ last.exc = "AttributeError"
    /\ electrode_names(electrodes) = <<IntItem(0), IntItem(1)>>
    /\ act.arg = ListArg(<<IntItem(0), StrItem(<<"Z">>), IntItem(1)>>)
    /\ act.pre = {} /\ deactivated = {electrodes[1].obj}

\* --------------------------------------------------------------- C14
RECURSIVE SumSeq(_)
SumSeq(q) == IF Len(q) = 0 THEN 0 ELSE q[1] + SumSeq(Tail(q))

\* C14: the centroid of the generated lattice is (0, 0).  The coordinates
\* are multiples of a quarter of the positive x_spc and y_spc, so the
\* centroid is at the origin exactly when both sums are zero.
C14_CentroidAtOrigin ==
    FreshGrid /\ shape[1] >= 1 /\ shape[2] >= 1 =>
        /\ Len(geom.x_arr) = shape[1] * shape[2]
        /\ Len(geom.y_arr) = shape[1] * shape[2]
        /\ SumSeq(geom.x_arr) = 0
        /\ SumSeq(geom.y_arr) = 0

\* --------------------------------------------------------------- C15
Cell(i, j) == i * shape[2] + j + 1
Abs(n) == IF n < 0 THEN 0 - n ELSE n
\* 64 times the squared distance of the a-th and the b-th electrode, in
\* squared units of the spacing argument.
Dist2(a, b) ==
    (geom.x_arr[a] - geom.x_arr[b]) * (geom.x_arr[a] - geom.x_arr[b]) * geom.x_spc2
    + (geom.y_arr[a] - geom.y_arr[b]) * (geom.y_arr[a] - geom.y_arr[b]) * geom.y_spc2
HexGrid == FreshGrid /\ geom.type = "hex" /\ geom.spacing.scalar

\* C15: in a hexagonal grid built with a scalar spacing s, in exact
\* arithmetic, neighbours along the unstaggered axis are s apart, an
\* electrode and each electrode of the adjacent row (column, when vertical)
\* that is half a step aside are s apart, the electrode with the same index
\* in the adjacent row (column) being one of them, and no two electrodes
\* are closer than s.
C15_HexSpacing ==
    HexGrid =>
        LET want == 64 * geom.spacing.x * geom.spacing.x
            rows == shape[1]
            cols == shape[2]
        IN  /\ \A a, b \in 1..Len(geom.x_arr) : a # b => Dist2(a, b) >= want
            /\ geom.orientation = "horizontal" =>
                   \A i \in 0..(rows - 1), j \in 0..(cols - 1) :
                       /\ j + 1 < cols => Dist2(Cell(i, j), Cell(i, j + 1)) = want
                       /\ i + 1 < rows =>
                              /\ Dist2(Cell(i, j), Cell(i + 1, j)) = want
                              /\ \A m \in 0..(cols - 1) :
                                     Abs(geom.x_arr[Cell(i, j)]
                                         - geom.x_arr[Cell(i + 1, m)]) = 2
                                     => Dist2(Cell(i, j), Cell(i + 1, m)) = want
            /\ geom.orientation = "vertical" =>
                   \A i \in 0..(rows - 1), j \in 0..(cols - 1) :
                       /\ i + 1 < rows => Dist2(Cell(i, j), Cell(i + 1, j)) = want
                       /\ j + 1 < cols =>
                              /\ Dist2(Cell(i, j), Cell(i, j + 1)) = want
                              /\ \A m \in 0..(rows - 1) :
                                     Abs(geom.y_arr[Cell(i, j)]
                                         - geom.y_arr[Cell(m, j + 1)]) = 2
                                     => Dist2(Cell(i, j), Cell(m, j + 1)) = want

\* A vertical 3x3 hexagonal grid of spacing 2: the electrode of row 1,
\* column 0 has neighbours at distance 2 below it and in the next column,
\* in its own row and one row down.
C15_Witness ==
    /\ HexGrid /\ geom.orientation = "vertical" /\ shape = <<3, 3>>
    /\ geom.spacing = ScalarSpacing(2)
    /\ Dist2(Cell(1, 0), Cell(2, 0)) = 256
    /\ Dist2(Cell(1, 0), Cell(1, 1)) = 256
    /\ Dist2(Cell(1, 0), Cell(2, 1)) = 256

====
